---- MODULE Spec2Model ----
(***************************************************************************)
(* A model of spacy/cli/validate.py: the `validate` command, which fetches *)
(* the compatibility table, normalises its version strings, scans the     *)
(* installed model packages and the model links of the data directory,    *)
(* classifies the incompatible ones and prints a report.                   *)
(*                                                                         *)
(* Python strings that the code takes apart (version strings, package,     *)
(* directory and model names) are sequences of one-character strings, so   *)
(* that endswith, startswith, replace and + are computed on characters.    *)
(* Python's None is the empty sequence NoValue, a present value x is the   *)
(* one-element sequence <<x>>.  A dict is a function, `k in d` is          *)
(* k \in DOMAIN d.                                                         *)
(***************************************************************************)
EXTENDS Integers, Sequences, FiniteSets, TLC

VARIABLES
    pc,              \* position of the run inside validate()
    status_code,     \* r.status_code of the response, 0 before the request
    n_requests,      \* number of HTTP GETs issued so far
    raw,             \* r.json()['spacy'] as decoded, NoValue while undecoded
    compat,          \* the matrix after the loop of lines 23-26
    all_models,      \* the set collected at line 24
    current_compat,  \* compat[about.__version__], NoValue before line 28
    data_path,       \* what get_model_links read, NoValue before it ran
    by_key,          \* what get_model_pkgs read, NoValue before it ran
    model_links,     \* result of get_model_links
    model_pkgs,      \* result of get_model_pkgs
    incompat_links,  \* line 31
    incompat_models, \* lines 32-35
    na_models,       \* line 36 (as a set: the list is built from a set)
    update_models,   \* line 37
    out,             \* everything printed so far, in order
    exit_code,       \* NoValue while running, <<n>> after sys.exit(n)
    error,           \* NoValue, or <<e>> after the unhandled exception e
    fn,              \* SpecFn only: the pure function under test
    arg,             \* SpecFn only: its argument
    ret,             \* SpecFn only: its result
    ret2             \* SpecFn only: reformat_version applied to ret

vars == <<pc, status_code, n_requests, raw, compat, all_models, current_compat,
          data_path, by_key, model_links, model_pkgs, incompat_links,
          incompat_models, na_models, update_models, out, exit_code, error,
          fn, arg, ret, ret2>>

NoValue == <<>>

-----------------------------------------------------------------------------
(* String helpers: Python's str.endswith, str.startswith, str.replace.     *)

startswith(s, prefix) ==
    Len(s) >= Len(prefix) /\ SubSeq(s, 1, Len(prefix)) = prefix

endswith(s, suffix) ==
    Len(s) >= Len(suffix) /\ SubSeq(s, Len(s) - Len(suffix) + 1, Len(s)) = suffix

\* str.replace(old, new): every non-overlapping occurrence, leftmost first.
RECURSIVE replace(_, _, _)
replace(s, old, new) ==
    IF Len(s) < Len(old) THEN s
    ELSE IF startswith(s, old)
         THEN new \o replace(SubSeq(s, Len(old) + 1, Len(s)), old, new)
         ELSE <<Head(s)>> \o replace(Tail(s), old, new)

\* `x in lst` for a list: a left-to-right scan comparing elements.
RECURSIVE list_contains(_, _)
list_contains(lst, x) ==
    IF lst = <<>> THEN FALSE
    ELSE IF Head(lst) = x THEN TRUE
    ELSE list_contains(Tail(lst), x)

Alpha == <<"-", "a", "l", "p", "h", "a">>

reformat_version(version) ==
    IF endswith(version, Alpha)
    THEN replace(version, Alpha, <<"a", "0">>)
    ELSE replace(version, Alpha, <<"a">>)

is_compat_or(cc, name, version) ==
    name \in DOMAIN cc
        \/ list_contains(IF name \in DOMAIN cc THEN cc[name] ELSE <<>>, version)

is_compat(cc, name, version) ==
    IF name \in DOMAIN cc THEN list_contains(cc[name], version) ELSE FALSE

-----------------------------------------------------------------------------
(* The inputs of a run: what the server answers, what the response body    *)
(* decodes to, what the data directory and the package registry hold.      *)

MaxListLen == 2   \* longest version list of the table
MaxCells == 2     \* most (host version, model) cells of the table
MaxDirs == 2      \* most entries of the data directory
MaxPkgs == 2      \* most installed packages
MaxParts == 3     \* SpecFn: most fragments a version string is built from

AboutVersion == "2.0.0"            \* about.__version__
HostVersions == {"1.0.0", AboutVersion}
StatusCodes == {200, 404, 500}

ModelA == <<"e", "n", "_", "s", "m">>
ModelB == <<"d", "e", "_", "m", "d">>
ModelNames == {ModelA, ModelB}

V1 == <<"1", ".", "0">>
V2alpha == <<"2", ".", "0">> \o Alpha
V2a0 == <<"2", ".", "0", "a", "0">>
RawVersions == {V1, V2alpha}
InstalledVersions == {V1, V2a0}

Injective(s) == \A i, j \in DOMAIN s : s[i] = s[j] => i = j
Range(s) == {s[i] : i \in DOMAIN s}

\* version lists as the table gives them: no version listed twice
RawLists ==
    {l \in UNION {[1..n -> RawVersions] : n \in 0..MaxListLen} : Injective(l)}

RawSubMaps == UNION {[M -> RawLists] : M \in SUBSET ModelNames}

Cells(m) ==
    {c \in HostVersions \X ModelNames : c[1] \in DOMAIN m /\ c[2] \in DOMAIN m[c[1]]}

RawMatrices ==
    {m \in UNION {[H -> RawSubMaps] : H \in SUBSET HostVersions} :
        Cardinality(Cells(m)) <= MaxCells}

Meta(lang, name, version) == <<[lang |-> lang, name |-> name, version |-> version]>>

\* the entries a data directory can hold: the directory's name, whether
\* is_dir() holds, and the decoded meta.json (NoValue: no such file)
DirEntries ==
    { [name |-> <<"e", "n">>, is_dir |-> TRUE,
       meta |-> Meta(<<"e", "n">>, <<"s", "m">>, V1)],
      [name |-> <<"d", "e">>, is_dir |-> TRUE,
       meta |-> Meta(<<"d", "e">>, <<"m", "d">>, V2a0)],
      [name |-> <<"c", "a", "c", "h", "e">>, is_dir |-> TRUE,
       meta |-> Meta(<<"e", "n">>, <<"s", "m">>, V1)],
      [name |-> <<".", "e", "n">>, is_dir |-> TRUE,
       meta |-> Meta(<<"e", "n">>, <<"s", "m">>, V1)],
      [name |-> <<"t", "m", "p">>, is_dir |-> TRUE, meta |-> NoValue],
      [name |-> <<"f">>, is_dir |-> FALSE, meta |-> NoValue] }

\* get_data_path(): None when the data directory is absent, else its listing
DataPaths ==
    {NoValue} \cup {<<d>> : d \in {D \in SUBSET DirEntries : Cardinality(D) <= MaxDirs}}

PkgNames == { <<"e", "n", "-", "s", "m">>, ModelB, <<"n", "p">> }

\* pkg_resources.working_set.by_key: package name -> installed version
WorkingSets ==
    UNION {[P -> InstalledVersions] :
              P \in {Q \in SUBSET PkgNames : Cardinality(Q) <= MaxPkgs}}

-----------------------------------------------------------------------------
(* The functions of validate.py.                                           *)

\* [reformat_version(v) for v in model_vs]
reformat_list(model_vs) == [i \in DOMAIN model_vs |-> reformat_version(model_vs[i])]

build_compat_current_only(m) ==
    [h \in DOMAIN m |->
        [n \in DOMAIN m[h] |->
            IF h = AboutVersion THEN reformat_list(m[h][n]) ELSE m[h][n]]]

\* lines 23-26: the matrix with every version list rewritten in place
build_compat(m) ==
    [h \in DOMAIN m |-> [n \in DOMAIN m[h] |-> reformat_list(m[h][n])]]

\* lines 22-24: the model names of every host version
build_all_models(m) == UNION {DOMAIN m[h] : h \in DOMAIN m}

exclude == { <<"c", "a", "c", "h", "e">>,
             <<"p", "y", "c", "a", "c", "h", "e">>,
             <<"_", "_", "p", "y", "c", "a", "c", "h", "e", "_", "_">> }

is_model_path_any_dir(model_path) ==
    model_path.is_dir /\ ~startswith(model_path.name, <<".">>)

is_model_path(model_path) ==
    /\ model_path.is_dir
    /\ model_path.name \notin exclude
    /\ ~startswith(model_path.name, <<".">>)

\* the entry get_model_links stores for the directory p
link_entry(cc, p) ==
    LET meta == p.meta[1]
        name == meta.lang \o <<"_">> \o meta.name
    IN  [name |-> name, version |-> meta.version,
         compat |-> is_compat(cc, name, meta.version)]

get_model_links(cc, dp) ==
    IF dp = NoValue THEN <<>>
    ELSE LET models == {p \in dp[1] : is_model_path(p)}
             found == {p \in models : p.meta # NoValue}
         IN  [link \in {p.name : p \in found} |->
                 link_entry(cc, CHOOSE p \in found : p.name = link)]

get_model_pkgs_current(cc, models, ws) ==
    LET package(k) == replace(k, <<"-">>, <<"_">>)
    IN  [k \in {q \in DOMAIN ws : package(q) \in DOMAIN cc} |->
            [name |-> package(k), version |-> ws[k],
             compat |-> is_compat(cc, package(k), ws[k])]]

get_model_pkgs(cc, models, ws) ==
    LET package(k) == replace(k, <<"-">>, <<"_">>)
    IN  [k \in {q \in DOMAIN ws : package(q) \in models} |->
            [name |-> package(k), version |-> ws[k],
             compat |-> is_compat(cc, package(k), ws[k])]]

\* line 31
incompat_links_of(links) == {l \in DOMAIN links : ~links[l].compat}

\* lines 32-35
incompat_models_of(links, pkgs) ==
    {pkgs[k].name : k \in {q \in DOMAIN pkgs : ~pkgs[q].compat}}
        \cup {links[l].name : l \in {q \in DOMAIN links : ~links[q].compat}}

\* line 36
na_models_of(incompat, cc) == {m \in incompat : m \notin DOMAIN cc}

update_models_unfiltered(incompat, cc) == incompat

\* line 37
update_models_of(incompat, cc) == {m \in incompat : m \in DOMAIN cc}

NA == <<"n", "/", "a">>
IndexError == <<"IndexError">>

\* get_model_row: the row printed for one entry, or IndexError when the
\* subscript [0] of line 101 is applied to an empty list
get_model_row(cc, name, data, type) ==
    IF data.compat
    THEN <<"row", type, name, data.name, "green", data.version, <<"check">>>>
    ELSE LET vs == IF data.name \in DOMAIN cc THEN cc[data.name] ELSE <<NA>>
         IN  IF vs = <<>> THEN IndexError
             ELSE <<"row", type, name, data.name, "red", data.version, <<"-->", vs[1]>>>>

\* the loops of lines 43-46: the rows of `entries` in the order `order`
\* appended to o, stopping at the first row that raises
RECURSIVE print_rows(_, _, _, _, _)
print_rows(o, cc, order, entries, type) ==
    IF order = <<>> THEN [out |-> o, raised |-> FALSE]
    ELSE LET row == get_model_row(cc, Head(order), entries[Head(order)], type)
         IN  IF row = IndexError THEN [out |-> o, raised |-> TRUE]
             ELSE print_rows(Append(o, row), cc, Tail(order), entries, type)

\* util.prints(text, exits=...): prints, then sys.exit(exits) unless exits is None
prints(o, text, exits) == [out |-> Append(o, text), exit_code |-> exits]

fetch_failed_5xx(status) == status >= 500

\* line 18
fetch_failed(status) == status # 200

has_models_inverted(links, pkgs) == ~(DOMAIN links # {} \/ DOMAIN pkgs # {})

\* line 41
has_models(links, pkgs) == DOMAIN links # {} \/ DOMAIN pkgs # {}

\* the orders in which a dict's items can come
Orders(S) == {s \in [1..Cardinality(S) -> S] : Injective(s)}

lookup_default(cmp, v) == IF v \in DOMAIN cmp THEN <<cmp[v]>> ELSE << <<>> >>

\* line 28, compat[about.__version__]: <<the sub-map>>, or NoValue for KeyError
lookup(cmp, v) == IF v \in DOMAIN cmp THEN <<cmp[v]>> ELSE NoValue

-----------------------------------------------------------------------------
(* The run of validate(), one action per step.                             *)

Init ==
    /\ pc = "start"
    /\ status_code = 0
    /\ n_requests = 0
    /\ raw = NoValue
    /\ compat = NoValue
    /\ all_models = {}
    /\ current_compat = NoValue
    /\ data_path = NoValue
    /\ by_key = NoValue
    /\ model_links = NoValue
    /\ model_pkgs = NoValue
    /\ incompat_links = {}
    /\ incompat_models = {}
    /\ na_models = {}
    /\ update_models = {}
    /\ out = <<>>
    /\ exit_code = NoValue
    /\ error = NoValue
    /\ fn = "none"
    /\ arg = NoValue
    /\ ret = NoValue
    /\ ret2 = NoValue

fnvars == <<fn, arg, ret, ret2>>
matrixvars == <<raw, compat, all_models, current_compat>>
scanvars == <<data_path, by_key, model_links, model_pkgs>>
classvars == <<incompat_links, incompat_models, na_models, update_models>>

\* line 17: requests.get(about.__compatibility__)
Get ==
    /\ pc = "start"
    /\ \E s \in StatusCodes : status_code' = s
    /\ n_requests' = n_requests + 1
    /\ pc' = "got"
    /\ UNCHANGED <<matrixvars, scanvars, classvars, out, exit_code, error, fnvars>>

\* lines 18-20: a status other than 200 prints the error and exits with 1
FetchError ==
    /\ pc = "got"
    /\ fetch_failed(status_code)
    /\ LET p == prints(out, <<"server_error", status_code>>, <<1>>)
       IN  /\ out' = p.out
           /\ exit_code' = p.exit_code
    /\ pc' = "exit"
    /\ UNCHANGED <<status_code, n_requests, matrixvars, scanvars, classvars,
                   error, fnvars>>

\* lines 21-26: decode the body, collect the model names, normalise
BuildMatrix ==
    /\ pc = "got"
    /\ ~fetch_failed(status_code)
    /\ \E m \in RawMatrices :
          /\ raw' = <<m>>
          /\ compat' = <<build_compat(m)>>
          /\ all_models' = build_all_models(m)
    /\ pc' = "built"
    /\ UNCHANGED <<status_code, n_requests, current_compat, scanvars, classvars,
                   out, exit_code, error, fnvars>>

\* line 28: current_compat = compat[about.__version__]
Lookup ==
    /\ pc = "built"
    /\ LET r == lookup(compat[1], AboutVersion)
       IN  IF r = NoValue
           THEN /\ error' = <<"KeyError">>
                /\ pc' = "raised"
                /\ UNCHANGED current_compat
           ELSE /\ current_compat' = r
                /\ pc' = "links"
                /\ UNCHANGED error
    /\ UNCHANGED <<status_code, n_requests, raw, compat, all_models, scanvars,
                   classvars, out, exit_code, fnvars>>

\* line 29
ScanLinks ==
    /\ pc = "links"
    /\ \E dp \in DataPaths :
          /\ data_path' = <<dp>>
          /\ model_links' = <<get_model_links(current_compat[1], dp)>>
    /\ pc' = "pkgs"
    /\ UNCHANGED <<status_code, n_requests, matrixvars, by_key, model_pkgs,
                   classvars, out, exit_code, error, fnvars>>

\* line 30
ScanPkgs ==
    /\ pc = "pkgs"
    /\ \E ws \in WorkingSets :
          /\ by_key' = <<ws>>
          /\ model_pkgs' = <<get_model_pkgs(current_compat[1], all_models, ws)>>
    /\ pc' = "classify"
    /\ UNCHANGED <<status_code, n_requests, matrixvars, data_path, model_links,
                   classvars, out, exit_code, error, fnvars>>

\* lines 31-37
Classify ==
    /\ pc = "classify"
    /\ incompat_links' = incompat_links_of(model_links[1])
    /\ LET incompat == incompat_models_of(model_links[1], model_pkgs[1])
       IN  /\ incompat_models' = incompat
           /\ na_models' = na_models_of(incompat, current_compat[1])
           /\ update_models' = update_models_of(incompat, current_compat[1])
    /\ pc' = "report"
    /\ UNCHANGED <<status_code, n_requests, matrixvars, scanvars, out, exit_code,
                   error, fnvars>>

\* lines 39-48: the title, then the table or "No models found" and exit 0
Report ==
    /\ pc = "report"
    /\ LET titled == prints(out, <<"title">>, NoValue).out
       IN  IF has_models(model_links[1], model_pkgs[1])
           THEN \E op \in Orders(DOMAIN model_pkgs[1]),
                   ol \in Orders(DOMAIN model_links[1]) :
                   LET r1 == print_rows(Append(titled, <<"header">>),
                                        current_compat[1], op, model_pkgs[1], "package")
                       r2 == IF r1.raised THEN r1
                             ELSE print_rows(r1.out, current_compat[1], ol,
                                             model_links[1], "link")
                   IN  /\ out' = r2.out
                       /\ error' = IF r2.raised THEN IndexError ELSE error
                       /\ pc' = IF r2.raised THEN "raised" ELSE "suggest"
                       /\ UNCHANGED exit_code
           ELSE LET p == prints(titled, <<"nomodels">>, <<0>>)
                IN  /\ out' = p.out
                    /\ exit_code' = p.exit_code
                    /\ pc' = "exit"
                    /\ UNCHANGED error
    /\ UNCHANGED <<status_code, n_requests, matrixvars, scanvars, classvars, fnvars>>

\* lines 50-63: the update commands, the unavailable models, the link hint
Suggest ==
    /\ pc = "suggest"
    /\ LET o1 == IF update_models # {}
                 THEN Append(out, <<"update", update_models>>) ELSE out
           o2 == IF na_models # {}
                 THEN prints(o1, <<"na", na_models>>, NoValue).out ELSE o1
           o3 == IF incompat_links # {}
                 THEN prints(o2, <<"overwrite_hint">>, NoValue).out ELSE o2
       IN  out' = o3
    /\ pc' = "done"
    /\ UNCHANGED <<status_code, n_requests, matrixvars, scanvars, classvars,
                   exit_code, error, fnvars>>

Next ==
    \/ Get
    \/ FetchError
    \/ BuildMatrix
    \/ Lookup
    \/ ScanLinks
    \/ ScanPkgs
    \/ Classify
    \/ Report
    \/ Suggest

Spec == Init /\ [][Next]_vars

-----------------------------------------------------------------------------
(* SpecFn: the pure functions reformat_version and is_compat applied to    *)
(* inputs drawn from bounded sets.                                         *)

Fragments ==
    { <<"1">>, <<".">>, <<"a">>, <<"-">>, Alpha,
      <<"-", "a", "l", "p", "h">>, <<"l", "p", "h", "a">> }

RECURSIVE Concat(_)
Concat(parts) == IF parts = <<>> THEN <<>> ELSE Head(parts) \o Concat(Tail(parts))

\* the version strings built from at most MaxParts fragments
VersionStrings ==
    {Concat(ps) : ps \in UNION {[1..n -> Fragments] : n \in 0..MaxParts}}

\* the sub-maps is_compat is called with: normalised version lists
SubMaps == {[n \in DOMAIN m |-> reformat_list(m[n])] : m \in RawSubMaps}

InitFn ==
    /\ pc = "fn"
    /\ status_code = 0
    /\ n_requests = 0
    /\ raw = NoValue
    /\ compat = NoValue
    /\ all_models = {}
    /\ current_compat = NoValue
    /\ data_path = NoValue
    /\ by_key = NoValue
    /\ model_links = NoValue
    /\ model_pkgs = NoValue
    /\ incompat_links = {}
    /\ incompat_models = {}
    /\ na_models = {}
    /\ update_models = {}
    /\ out = <<>>
    /\ exit_code = NoValue
    /\ error = NoValue
    /\ \/ /\ fn = "reformat_version"
          /\ arg \in {<<v>> : v \in VersionStrings}
       \/ /\ fn = "is_compat"
          /\ arg \in SubMaps \X (ModelNames \cup {<<"n", "p">>})
                             \X (InstalledVersions \cup RawVersions)
    /\ ret = NoValue
    /\ ret2 = NoValue

mainvars == <<pc, status_code, n_requests, matrixvars, scanvars, classvars, out,
              exit_code, error>>

CallReformat ==
    /\ fn = "reformat_version"
    /\ ret = NoValue
    /\ ret' = <<reformat_version(arg[1])>>
    /\ UNCHANGED <<mainvars, fn, arg, ret2>>

CallReformatAgain ==
    /\ fn = "reformat_version"
    /\ ret # NoValue
    /\ ret2 = NoValue
    /\ ret2' = <<reformat_version(ret[1])>>
    /\ UNCHANGED <<mainvars, fn, arg, ret>>

CallIsCompat ==
    /\ fn = "is_compat"
    /\ ret = NoValue
    /\ ret' = <<is_compat(arg[1], arg[2], arg[3])>>
    /\ UNCHANGED <<mainvars, fn, arg, ret2>>

NextFn ==
    \/ CallReformat
    \/ CallReformatAgain
    \/ CallIsCompat

SpecFn == InitFn /\ [][NextFn]_vars

-----------------------------------------------------------------------------
(* The claims.                                                             *)

\* version v is an element of the list of model n in the sub-map cc
Listed(cc, n, v) == n \in DOMAIN cc /\ \E i \in DOMAIN cc[n] : cc[n][i] = v

\* a name with every hyphen replaced by an underscore
Underscored(k) == [i \in DOMAIN k |-> IF k[i] = "-" THEN "_" ELSE k[i]]

\* the scanners have run (the run is at or past line 31)
Scanned == model_links # NoValue /\ model_pkgs # NoValue

\* the report of lines 39-48 has been printed or has ended the run
Reported ==
    \/ pc \in {"suggest", "done"}
    \/ pc = "exit" /\ Scanned
    \/ pc = "raised" /\ error = IndexError

\* C1: is_compat(compat, name, version) is a boolean for every input, true
\* exactly when name is a key of the sub-map and version is an element of
\* that model's list; false for an unlisted version and for a model that is
\* not a key, never an error.
C1_IsCompatIffListed ==
    (fn = "is_compat" /\ ret # NoValue) =>
        /\ ret[1] \in BOOLEAN
        /\ ret[1] <=> Listed(arg[1], arg[2], arg[3])

C1_Witness ==
    /\ fn = "is_compat"
    /\ ret = <<TRUE>>
    /\ Len(arg[1][arg[2]]) = 2
    /\ arg[1][arg[2]][2] = arg[3]

\* the resolved model names with an installed package or link, compat false
IncompatNames ==
    {model_pkgs[1][k].name : k \in {q \in DOMAIN model_pkgs[1] : ~model_pkgs[1][q].compat}}
        \cup
    {model_links[1][l].name : l \in {q \in DOMAIN model_links[1] : ~model_links[1][q].compat}}

\* C2: once validate has classified, update_models and na_models are
\* disjoint, their union is the set of model names with an incompatible
\* package or link, an incompatible name is in update_models iff it is a key
\* of the current sub-map and in na_models iff it is not, and a model whose
\* installations are all compatible is in neither.
C2_UpdateNaPartition ==
    (Scanned /\ pc \notin {"classify"}) =>
        /\ update_models \cap na_models = {}
        /\ update_models \cup na_models = IncompatNames
        /\ \A m \in IncompatNames :
              /\ m \in update_models <=> m \in DOMAIN current_compat[1]
              /\ m \in na_models <=> m \notin DOMAIN current_compat[1]
        /\ \A k \in DOMAIN model_pkgs[1] :
              model_pkgs[1][k].name \notin IncompatNames =>
                  model_pkgs[1][k].name \notin update_models \cup na_models

C2_Witness ==
    /\ pc = "done"
    /\ update_models # {}
    /\ na_models # {}
    /\ \E k \in DOMAIN model_pkgs[1] : model_pkgs[1][k].compat

\* C3: after a response with a status other than 200 the run prints the
\* server error and exits with code 1: one request only, the body never
\* decoded, neither scanner run, no report output.
C3_FetchErrorExits ==
    /\ n_requests <= 1
    /\ (pc # "start" /\ status_code # 200) =>
          /\ pc \in {"got", "exit"}
          /\ raw = NoValue /\ compat = NoValue
          /\ data_path = NoValue /\ by_key = NoValue
          /\ model_links = NoValue /\ model_pkgs = NoValue
          /\ error = NoValue
          /\ pc = "got" => out = <<>> /\ exit_code = NoValue
          /\ pc = "exit" => /\ out = << <<"server_error", status_code>> >>
                            /\ exit_code = <<1>>

C3_Witness == pc = "exit" /\ status_code = 404 /\ exit_code = <<1>>

\* C4: when both scanners found nothing the report is the title and the
\* "No models found" message, the run has exited with code 0 and nothing
\* else is printed.
C4_NoModelsExits ==
    (Reported /\ DOMAIN model_links[1] = {} /\ DOMAIN model_pkgs[1] = {}) =>
        /\ pc = "exit"
        /\ exit_code = <<0>>
        /\ out = << <<"title">>, <<"nomodels">> >>
        /\ error = NoValue

C4_Witness ==
    /\ pc = "exit"
    /\ exit_code = <<0>>
    /\ data_path[1] # NoValue /\ data_path[1][1] # {}
    /\ DOMAIN by_key[1] # {}

\* C5: reformat_version is idempotent: applied to its own result it returns
\* that result unchanged.
C5_Idempotent == ret2 # NoValue => ret2 = ret

\* C6: when about.__version__ is no key of the decoded matrix the run fails
\* with the lookup error of line 28, before either scanner has run and
\* before anything is printed.
C6_MissingHostVersionFails ==
    (compat # NoValue /\ AboutVersion \notin DOMAIN compat[1]) =>
        /\ pc \in {"built", "raised"}
        /\ pc = "raised" => error = <<"KeyError">>
        /\ pc = "built" => error = NoValue
        /\ current_compat = NoValue
        /\ data_path = NoValue /\ by_key = NoValue
        /\ model_links = NoValue /\ model_pkgs = NoValue
        /\ out = <<>>
        /\ exit_code = NoValue

C6_Witness == pc = "raised" /\ error = <<"KeyError">> /\ DOMAIN compat[1] # {}

\* the model names of every host version of the decoded matrix
AllHostsModels == {n \in ModelNames : \E h \in DOMAIN raw[1] : n \in DOMAIN raw[1][h]}

\* C7: get_model_pkgs has an entry for an installed package iff its name with
\* hyphens as underscores is a model of some host version; the entry is keyed
\* by the package name and holds the normalised name, the installed version
\* and compat = whether the version is listed under the name in the current
\* sub-map, so a model of other host versions only has compat false.
C7_PkgsFilteredByAllModels ==
    model_pkgs # NoValue =>
        /\ DOMAIN model_pkgs[1] =
              {k \in DOMAIN by_key[1] : Underscored(k) \in AllHostsModels}
        /\ \A k \in DOMAIN model_pkgs[1] :
              /\ model_pkgs[1][k].name = Underscored(k)
              /\ model_pkgs[1][k].version = by_key[1][k]
              /\ model_pkgs[1][k].compat <=>
                    Listed(current_compat[1], Underscored(k), by_key[1][k])
              /\ Underscored(k) \notin DOMAIN current_compat[1] =>
                    ~model_pkgs[1][k].compat

C7_Witness ==
    /\ model_pkgs # NoValue
    /\ \E k \in DOMAIN model_pkgs[1] :
          /\ k # model_pkgs[1][k].name
          /\ model_pkgs[1][k].name \notin DOMAIN current_compat[1]
          /\ ~model_pkgs[1][k].compat
    /\ \E k \in DOMAIN by_key[1] : k \notin DOMAIN model_pkgs[1]

\* the entries of the data directory that get_model_links reports
Eligible(entries) ==
    {p \in entries :
        /\ p.is_dir
        /\ p.name # <<"c", "a", "c", "h", "e">>
        /\ p.name # <<"p", "y", "c", "a", "c", "h", "e">>
        /\ p.name # <<"_", "_", "p", "y", "c", "a", "c", "h", "e", "_", "_">>
        /\ p.name[1] # "."
        /\ p.meta # NoValue}

\* C8: get_model_links returns the empty mapping when the data directory is
\* absent; otherwise one entry per subdirectory that is a directory, is not
\* named cache, pycache or __pycache__, does not start with '.', and has a
\* meta.json, keyed by the directory name, with name = lang_name and
\* compat = whether the metadata version is listed for that name.
C8_LinksOnePerModelDir ==
    model_links # NoValue =>
        IF data_path[1] = NoValue
        THEN DOMAIN model_links[1] = {}
        ELSE LET found == Eligible(data_path[1][1])
             IN  /\ DOMAIN model_links[1] = {p.name : p \in found}
                 /\ Cardinality(DOMAIN model_links[1]) = Cardinality(found)
                 /\ \A p \in found :
                       LET e == model_links[1][p.name]
                           m == p.meta[1]
                       IN  /\ e.name = m.lang \o <<"_">> \o m.name
                           /\ e.version = m.version
                           /\ e.compat <=> Listed(current_compat[1], e.name, m.version)

C8_Witness ==
    /\ model_links # NoValue
    /\ data_path[1] # NoValue
    /\ Cardinality(data_path[1][1]) = 2
    /\ Cardinality(DOMAIN model_links[1]) = 1
    /\ \E p \in data_path[1][1] : p.name \in exclude

\* C9 (state part): once built, the matrix has the host versions and model
\* names of the decoded one, and every list is the decoded list with
\* reformat_version applied element by element, same length and order.
C9_AllNormalised ==
    compat # NoValue =>
        /\ DOMAIN compat[1] = DOMAIN raw[1]
        /\ \A h \in DOMAIN raw[1] :
              /\ DOMAIN compat[1][h] = DOMAIN raw[1][h]
              /\ \A n \in DOMAIN raw[1][h] :
                    /\ Len(compat[1][h][n]) = Len(raw[1][h][n])
                    /\ \A i \in 1..Len(raw[1][h][n]) :
                          compat[1][h][n][i] = reformat_version(raw[1][h][n][i])

\* C9: the matrix is normalised for every host version when it is built and
\* is not modified by the scanners or the report.
C9_MatrixNormalisedAndFrozen ==
    /\ []C9_AllNormalised
    /\ [][compat # NoValue => compat' = compat]_vars

C9_Witness ==
    /\ pc = "done"
    /\ \E h \in DOMAIN raw[1] :
          /\ h # AboutVersion
          /\ \E n \in DOMAIN raw[1][h] :
                /\ Len(raw[1][h][n]) = 2
                /\ raw[1][h][n][2] = V2alpha
                /\ compat[1][h][n][2] = V2a0

\* the row the report shows for an entry
ExpectedRow(type, key, data) ==
    <<"row", type, key, data.name,
      IF data.compat THEN "green" ELSE "red", data.version,
      IF data.compat THEN <<"check">>
      ELSE IF data.name \in DOMAIN current_compat[1]
           THEN <<"-->", current_compat[1][data.name][1]>>
           ELSE <<"-->", NA>> >>

\* C10: when a package or link was found the report is the title, one
\* header, one row per package, then one row per link; a row shows the
\* checkmark iff the entry is compatible, else the first version listed for
\* the model in the current sub-map or n/a; rendering never fails.
C10_RowsRendered ==
    (Reported /\ (DOMAIN model_links[1] # {} \/ DOMAIN model_pkgs[1] # {})) =>
        LET np == Cardinality(DOMAIN model_pkgs[1])
            nl == Cardinality(DOMAIN model_links[1])
        IN  /\ error = NoValue
            /\ Len(out) >= 2 + np + nl
            /\ out[1] = <<"title">> /\ out[2] = <<"header">>
            /\ {out[i][3] : i \in 3..(2 + np)} = DOMAIN model_pkgs[1]
            /\ \A i \in 3..(2 + np) :
                  out[i] = ExpectedRow("package", out[i][3], model_pkgs[1][out[i][3]])
            /\ {out[i][3] : i \in (3 + np)..(2 + np + nl)} = DOMAIN model_links[1]
            /\ \A i \in (3 + np)..(2 + np + nl) :
                  out[i] = ExpectedRow("link", out[i][3], model_links[1][out[i][3]])
            /\ \A i \in (3 + np + nl)..Len(out) : out[i][1] # "row"

====
